---- MODULE Spec2Model ----
(***************************************************************************)
(* BrandBrain podcast recommender: src/app.py (LLM prompt-and-parse, the   *)
(* vector-store query, the two CSV lookups) and src/streamlit_app.py (the  *)
(* form handler that renders the merged result list).                      *)
(*                                                                         *)
(* Texts that the code inspects character by character (the LLM response)  *)
(* are sequences of one-character strings.  Scores are distances in tenths *)
(* (a score of 12 is the distance 1.2).                                    *)
(***************************************************************************)
EXTENDS Integers, Sequences, FiniteSets, TLC

\* ------------------------------------------------------------------ bounds
\* Number of documents the vector index may hold (more than TopK, so that the
\* top-k cut happens).
MaxDocs == 6

\* k of similarity_search_with_score
TopK == 5

\* ------------------------------------------------------------- CSV tables
\* pandas reads an empty cell as the float nan: a value that is not a string.
NaN == "<float nan>"

IsStr(v) == v # NaN

\* row.get(col, default) on a pandas row: the default only when the column is
\* absent; an empty cell gives NaN.
RowGet(row, col, default) == IF col \in DOMAIN row THEN row[col] ELSE default

\* pd.read_csv(path): raises when the file is missing or unreadable.
ReadCsvRaises(tbl) == tbl.status \in {"missing_file", "unreadable"}

\* df[df[key] == client_id]: the rows whose key equals client_id, in file
\* order.  Raises KeyError when the key column is absent.
KeyColumnMissing(tbl, key) == tbl.status = "no_key_column"

MatchingRows(tbl, key, client_id) ==
    SelectSeq(tbl.rows, LAMBDA r : key \in DOMAIN r /\ r[key] = client_id)

\* The dictionary of lines 65-74.
DetailsNotFound(client_id) ==
    [name |-> "Podcast " \o client_id, image |-> "",
     summary |-> "No details available", categories |-> "", youtube_id |-> "",
     spotify_id |-> "", website_name |-> "", rss_feed |-> ""]

\* The dictionary of lines 77-86.
DetailsOnError(client_id) ==
    [name |-> "Podcast " \o client_id, image |-> "",
     summary |-> "Error loading details", categories |-> "", youtube_id |-> "",
     spotify_id |-> "", website_name |-> "", rss_feed |-> ""]

\* The dictionary of lines 54-63.
DetailsOfRow(row) ==
    [name |-> RowGet(row, "name", "Unknown Podcast"),
     image |-> RowGet(row, "image", ""),
     summary |-> RowGet(row, "summary", ""),
     categories |-> RowGet(row, "categories", ""),
     youtube_id |-> RowGet(row, "youtubeID", ""),
     spotify_id |-> RowGet(row, "spotifyId", ""),
     website_name |-> RowGet(row, "websiteName", ""),
     rss_feed |-> RowGet(row, "rssFeed", "")]

\* Whether the try block of get_podcast_details raises (and is caught).
DetailsReadFails(tbl) == ReadCsvRaises(tbl) \/ KeyColumnMissing(tbl, "id")

\* get_podcast_details with the emptiness test of line 52 dropped: iloc[0] of
\* no rows raises IndexError, which line 75 catches.
get_podcast_details_unguarded_iloc(tbl, client_id) ==
    IF DetailsReadFails(tbl) \/ MatchingRows(tbl, "id", client_id) = <<>>
    THEN DetailsOnError(client_id)
    ELSE DetailsOfRow(MatchingRows(tbl, "id", client_id)[1])

\* get_podcast_details(client_id): the returned dictionary.
get_podcast_details(tbl, client_id) ==
    IF DetailsReadFails(tbl)
    THEN DetailsOnError(client_id)
    ELSE LET podcast_row == MatchingRows(tbl, "id", client_id)
         IN  IF podcast_row # <<>>
             THEN DetailsOfRow(podcast_row[1])
             ELSE DetailsNotFound(client_id)

\* get_podcast_details swallowing the error without the print of line 76.
DetailsLog_silent(tbl, client_id) == <<>>

\* What get_podcast_details prints (line 76).
DetailsLog(tbl, client_id) ==
    IF DetailsReadFails(tbl)
    THEN <<"Error loading podcast details for " \o client_id>>
    ELSE <<>>

\* The dictionary of lines 116-123 and of lines 126-133.
StatsDefault ==
    [min_impressions |-> 0, max_impressions |-> 0, youtube_subscribers |-> 0,
     instagram_followers |-> 0, episode_avg_views |-> 0,
     estimated_ad_price |-> "N/A"]

\* The dictionary of lines 107-114.
StatsOfRow(row) ==
    [min_impressions |-> RowGet(row, "min_impressions", 0),
     max_impressions |-> RowGet(row, "max_impressions", 0),
     youtube_subscribers |-> RowGet(row, "youtube_subscribers", 0),
     instagram_followers |-> RowGet(row, "instagram_followers", 0),
     episode_avg_views |-> RowGet(row, "episode_avg_views", 0),
     estimated_ad_price |-> RowGet(row, "estimated_ad_price", "N/A")]

StatsReadFails(tbl) == ReadCsvRaises(tbl) \/ KeyColumnMissing(tbl, "clientId")

\* get_podcast_stats(client_id): the returned dictionary.
get_podcast_stats(tbl, client_id) ==
    IF StatsReadFails(tbl)
    THEN StatsDefault
    ELSE LET stats_row == MatchingRows(tbl, "clientId", client_id)
         IN  IF stats_row # <<>>
             THEN StatsOfRow(stats_row[1])
             ELSE StatsDefault

\* What get_podcast_stats prints (line 125).
StatsLog(tbl, client_id) ==
    IF StatsReadFails(tbl)
    THEN <<"Error loading podcast stats for " \o client_id>>
    ELSE <<>>

\* ------------------------------------------------------------ Python str
\* Characters str.strip() removes.
Spaces == {" ", "\n", "\t", "\r"}

\* s.lstrip(chars)
RECURSIVE LStrip(_, _)
LStrip(s, chars) ==
    IF s # <<>> /\ Head(s) \in chars THEN LStrip(Tail(s), chars) ELSE s

\* s.rstrip(chars)
RECURSIVE RStrip(_, _)
RStrip(s, chars) ==
    IF s # <<>> /\ s[Len(s)] \in chars
    THEN RStrip(SubSeq(s, 1, Len(s) - 1), chars)
    ELSE s

\* s.strip()
Strip(s) == RStrip(LStrip(s, Spaces), Spaces)

\* The backtick character (the lexer of TLA+ takes no backtick in a string).
Backtick == "<backtick>"

\* s.strip(Backtick)
StripBackticks(s) == RStrip(LStrip(s, {Backtick}), {Backtick})

\* s.startswith(prefix)
StartsWith(s, prefix) ==
    Len(s) >= Len(prefix) /\ SubSeq(s, 1, Len(prefix)) = prefix

\* s.replace(old, ""): every non-overlapping occurrence, leftmost first.
RECURSIVE Remove(_, _)
Remove(s, old) ==
    IF s = <<>> THEN <<>>
    ELSE IF StartsWith(s, old)
         THEN Remove(SubSeq(s, Len(old) + 1, Len(s)), old)
         ELSE <<Head(s)>> \o Remove(Tail(s), old)

Fence == <<Backtick, Backtick, Backtick>>

\* Lines 226-228: remove the code fences (three backticks, with or without json).
RemoveCodeFences(raw_output) ==
    IF StartsWith(raw_output, Fence)
    THEN Remove(Remove(StripBackticks(raw_output), <<"j", "s", "o", "n", "\n">>),
                <<"j", "s", "o", "n">>)
    ELSE raw_output

\* ------------------------------------------------------------ json.loads
JStr(s) == [t |-> "str", s |-> s]
JNum(n) == [t |-> "num", n |-> n]
JLit(name) == [t |-> "lit", name |-> name]
JArr(items) == [t |-> "arr", items |-> items]
JObj(members) == [t |-> "obj", members |-> members]

ParseFail == [ok |-> FALSE, val |-> JLit("null"), pos |-> 0]
ParseOk(v, p) == [ok |-> TRUE, val |-> v, pos |-> p]

IsJsonWs(c) == c \in {" ", "\n", "\t", "\r"}

RECURSIVE SkipWs(_, _)
SkipWs(s, i) == IF i <= Len(s) /\ IsJsonWs(s[i]) THEN SkipWs(s, i + 1) ELSE i

At(s, i) == IF i >= 1 /\ i <= Len(s) THEN s[i] ELSE "<end>"

Digits == <<"0", "1", "2", "3", "4", "5", "6", "7", "8", "9">>
IsDigit(c) == \E d \in 1..10 : Digits[d] = c
DigitValue(c) == (CHOOSE d \in 1..10 : Digits[d] = c) - 1

\* The escapes of a JSON string (the \uXXXX form is outside the inputs).
Unescape(c) ==
    CASE c = "n" -> "\n"
      [] c = "t" -> "\t"
      [] c = "r" -> "\r"
      [] OTHER -> c
IsEscape(c) == c \in {"\"", "\\", "/", "b", "f", "n", "r", "t"}

\* The string whose opening quote is at i - 1.  json.loads is strict: a raw
\* control character inside a string is an error.
RECURSIVE ScanString(_, _, _)
ScanString(s, i, acc) ==
    IF i > Len(s) THEN ParseFail
    ELSE IF s[i] = "\"" THEN ParseOk(JStr(acc), i + 1)
    ELSE IF s[i] = "\\"
         THEN IF IsEscape(At(s, i + 1))
              THEN ScanString(s, i + 2, Append(acc, Unescape(s[i + 1])))
              ELSE ParseFail
    ELSE IF s[i] \in {"\n", "\t", "\r"} THEN ParseFail
    ELSE ScanString(s, i + 1, Append(acc, s[i]))

RECURSIVE ScanDigits(_, _, _)
ScanDigits(s, i, acc) ==
    IF IsDigit(At(s, i))
    THEN ScanDigits(s, i + 1, acc * 10 + DigitValue(s[i]))
    ELSE ParseOk(JNum(acc), i)

\* An integer: 0, or a non-zero digit followed by digits (fractions and
\* exponents are outside the inputs).
ScanNumber(s, i) ==
    IF At(s, i) = "0" THEN ParseOk(JNum(0), i + 1)
    ELSE IF IsDigit(At(s, i)) THEN ScanDigits(s, i, 0)
    ELSE ParseFail

\* s[i:].startswith(word)
StartsAt(s, i, word) ==
    i >= 1 /\ i + Len(word) - 1 <= Len(s) /\ SubSeq(s, i, i + Len(word) - 1) = word

ScanLiteral(s, i) ==
    IF StartsAt(s, i, <<"t", "r", "u", "e">>) THEN ParseOk(JLit("true"), i + 4)
    ELSE IF StartsAt(s, i, <<"n", "u", "l", "l">>) THEN ParseOk(JLit("null"), i + 4)
    ELSE IF StartsAt(s, i, <<"f", "a", "l", "s", "e">>) THEN ParseOk(JLit("false"), i + 5)
    ELSE ParseFail

RECURSIVE ScanValue(_, _)
RECURSIVE ScanMembers(_, _, _)
RECURSIVE ScanItems(_, _, _)

\* The value that starts at i (no leading whitespace).
ScanValue(s, i) ==
    LET c == At(s, i)
    IN  IF c = "\"" THEN ScanString(s, i + 1, <<>>)
        ELSE IF c = "{"
             THEN LET j == SkipWs(s, i + 1)
                  IN  IF At(s, j) = "}" THEN ParseOk(JObj(<<>>), j + 1)
                      ELSE ScanMembers(s, j, <<>>)
        ELSE IF c = "["
             THEN LET j == SkipWs(s, i + 1)
                  IN  IF At(s, j) = "]" THEN ParseOk(JArr(<<>>), j + 1)
                      ELSE ScanItems(s, j, <<>>)
        ELSE IF c = "-"
             THEN LET n == ScanNumber(s, i + 1)
                  IN  IF n.ok THEN ParseOk(JNum(0 - n.val.n), n.pos) ELSE ParseFail
        ELSE IF IsDigit(c) THEN ScanNumber(s, i)
        ELSE ScanLiteral(s, i)

\* The members of an object, the first key's quote expected at i.
ScanMembers(s, i, acc) ==
    IF At(s, i) # "\"" THEN ParseFail
    ELSE LET k == ScanString(s, i + 1, <<>>)
         IN  IF ~k.ok THEN ParseFail
             ELSE LET c == SkipWs(s, k.pos)
                  IN  IF At(s, c) # ":" THEN ParseFail
                      ELSE LET v == ScanValue(s, SkipWs(s, c + 1))
                           IN  IF ~v.ok THEN ParseFail
                               ELSE LET e == SkipWs(s, v.pos)
                                        m == Append(acc, [k |-> k.val.s, v |-> v.val])
                                    IN  IF At(s, e) = "}" THEN ParseOk(JObj(m), e + 1)
                                        ELSE IF At(s, e) = ","
                                             THEN ScanMembers(s, SkipWs(s, e + 1), m)
                                             ELSE ParseFail

\* The items of an array, the first item expected at i.
ScanItems(s, i, acc) ==
    LET v == ScanValue(s, i)
    IN  IF ~v.ok THEN ParseFail
        ELSE LET e == SkipWs(s, v.pos)
                 m == Append(acc, v.val)
             IN  IF At(s, e) = "]" THEN ParseOk(JArr(m), e + 1)
                 ELSE IF At(s, e) = ","
                      THEN ScanItems(s, SkipWs(s, e + 1), m)
                      ELSE ParseFail

\* json.loads(s): ok is FALSE where it raises JSONDecodeError (no value, or
\* extra data after the value).
JsonLoads(s) ==
    LET v == ScanValue(s, SkipWs(s, 1))
    IN  IF v.ok /\ SkipWs(s, v.pos) = Len(s) + 1 THEN v ELSE ParseFail

DetailsKey ==
    <<"p", "o", "d", "c", "a", "s", "t", "_", "d", "e", "t", "a", "i", "l", "s",
      "_", "s", "t", "r", "i", "n", "g">>

\* d[key] of a parsed object: the last member with that key wins.
HasKey(obj, key) == \E i \in 1..Len(obj.members) : obj.members[i].k = key
Lookup(obj, key) ==
    LET i == CHOOSE i \in 1..Len(obj.members) :
                 /\ obj.members[i].k = key
                 /\ \A j \in (i + 1)..Len(obj.members) : obj.members[j].k # key
    IN  obj.members[i].v

\* Lines 224-237 with the fence removal applied to every text, fenced or not.
ParseLLMOutput_always_unfenced(output_text) ==
    LET raw_output == Remove(Remove(StripBackticks(Strip(output_text)),
                                    <<"j", "s", "o", "n", "\n">>),
                             <<"j", "s", "o", "n">>)
        podcast_matching_string == JsonLoads(raw_output)
    IN  IF /\ podcast_matching_string.ok
           /\ podcast_matching_string.val.t = "obj"
           /\ HasKey(podcast_matching_string.val, DetailsKey)
        THEN Lookup(podcast_matching_string.val, DetailsKey)
        ELSE JStr(<<>>)

\* Lines 224-237: from the LLM's output text to podcast_details_string.  Any
\* exception of lines 231-232 (JSONDecodeError, KeyError, TypeError on a value
\* that is no dictionary) gives the empty string.
ParseLLMOutput(output_text) ==
    LET raw_output == RemoveCodeFences(Strip(output_text))
        podcast_matching_string == JsonLoads(raw_output)
    IN  IF /\ podcast_matching_string.ok
           /\ podcast_matching_string.val.t = "obj"
           /\ HasKey(podcast_matching_string.val, DetailsKey)
        THEN Lookup(podcast_matching_string.val, DetailsKey)
        ELSE JStr(<<>>)

\* Whether lines 231-232 raised (and line 234 printed).
ParseLLMOutputRaises(output_text) ==
    LET podcast_matching_string == JsonLoads(RemoveCodeFences(Strip(output_text)))
    IN  ~(/\ podcast_matching_string.ok
          /\ podcast_matching_string.val.t = "obj"
          /\ HasKey(podcast_matching_string.val, DetailsKey))

\* ------------------------------------------------- LLM responses (inputs)
Quote == "\""

Payload(value) == <<"{", Quote>> \o DetailsKey \o <<Quote, ":">> \o value \o <<"}">>

\* Code fences around a payload, with the json tag and without it.
FencedJson(p) == Fence \o <<"j", "s", "o", "n", "\n">> \o p \o <<"\n">> \o Fence
FencedPlain(p) == Fence \o <<"\n">> \o p \o <<"\n">> \o Fence

PGood == Payload(<<Quote, "h", "i", Quote>>)
PEmptyDescription == Payload(<<Quote, Quote>>)
PNumber == Payload(<<"7">>)
PNoKey == <<"{", "}">>
PArray == <<"[", "]">>
PBareString == <<Quote, "h", "i", Quote>>
PTruncated == <<"{", Quote>> \o DetailsKey \o <<Quote, ":", Quote, "h", "i", Quote>>
PRawNewline == Payload(<<Quote, "h", "\n", "i", Quote>>)
PEscapedNewline == Payload(<<Quote, "h", "\\", "n", "i", Quote>>)
PJsonWord == Payload(<<Quote, "j", "s", "o", "n", Quote>>)
PProse == <<"h", "i">>
PBackticks == Payload(<<Quote, Backtick, "h", "i", Backtick, Quote>>)

\* The payloads that are a JSON object with a string description.
DescriptionPayloads ==
    {PGood, PEmptyDescription, PEscapedNewline, PJsonWord, PBackticks}

\* The texts the LLM endpoint may return.
LLMResponses ==
    {PGood, PEmptyDescription, PNumber, PNoKey, PArray, PBareString, PTruncated,
     PRawNewline, PEscapedNewline, PJsonWord, PProse, <<>>,
     <<"\n", " ">> \o PGood \o <<"\n">>,
     FencedJson(PGood), FencedPlain(PGood), FencedJson(PJsonWord),
     FencedJson(PTruncated), PBackticks, FencedJson(PBackticks),
     FencedPlain(PJsonWord), FencedPlain(PEscapedNewline)}

\* --------------------------------------------------------------- the form
\* Form texts are sequences of tokens: words, and the tokens the code looks
\* for (the scheme of a URL, the comma and the blank of the interests text).
DefaultForm ==
    [website |-> <<"vimergy.com">>, budget |-> 40000, aov |-> 80, ctr |-> "1.5",
     target_gender |-> 90, hhi |-> "$100k+",
     interests |-> <<"Holistic Health & Wellness", ",", " ",
                     "Clean Eating & Gut Health", ",", " ",
                     "Functional & Integrative Medicine">>]

\* The forms a user may submit (the number widgets keep budget and aov within
\* their min_value and max_value).
Forms ==
    {DefaultForm,
     [DefaultForm EXCEPT !.website = <<>>],
     [DefaultForm EXCEPT !.website = <<"https://", "shop.example">>,
                         !.budget = 1000, !.aov = 10, !.target_gender = 0,
                         !.hhi = "Under $25k",
                         !.interests = <<" ", ",", "technology", " ", ",", ",",
                                         " ", "tv&film", " ">>],
     [DefaultForm EXCEPT !.website = <<"http://", "science">>,
                         !.interests = <<>>]}

\* Line 107: website.startswith(('http://', 'https://'))
HasScheme(website) ==
    StartsWith(website, <<"http://">>) \/ StartsWith(website, <<"https://">>)

\* Lines 107-108
FormatWebsite(website) ==
    IF HasScheme(website) THEN website ELSE <<"https://">> \o website

\* text.split(","): the pieces between the commas.
RECURSIVE SplitComma(_, _)
SplitComma(text, piece) ==
    IF text = <<>> THEN <<piece>>
    ELSE IF Head(text) = "," THEN <<piece>> \o SplitComma(Tail(text), <<>>)
    ELSE SplitComma(Tail(text), Append(piece, Head(text)))

\* Line 118: [interest.strip() for interest in interests.split(",") if interest.strip()]
ParseInterests(interests) ==
    LET pieces == SplitComma(interests, <<>>)
        stripped == [i \in 1..Len(pieces) |-> Strip(pieces[i])]
    IN  SelectSeq(stripped, LAMBDA x : x # <<>>)

\* Lines 111-119
BrandDetails(form) ==
    [website |-> FormatWebsite(form.website),
     budget |-> form.budget,
     aov |-> form.aov,
     ctr |-> form.ctr,
     target_gender |-> ToString(form.target_gender) \o "% female",
     target_hhi |-> form.hhi,
     interests |-> ParseInterests(form.interests)]

NoBrand ==
    [website |-> <<>>, budget |-> 0, aov |-> 0, ctr |-> "", target_gender |-> "",
     target_hhi |-> "", interests |-> <<>>]

\* ------------------------------------------------------------- the prompt
RECURSIVE Flatten(_)
Flatten(seqs) == IF seqs = <<>> THEN <<>> ELSE Head(seqs) \o Flatten(Tail(seqs))

\* str(brand_details), as the f-string of line 215 formats the dictionary:
\* keys and values in insertion order.
BrandText(bd) ==
    <<"website">> \o bd.website
    \o <<"budget", ToString(bd.budget), "aov", ToString(bd.aov), "ctr", bd.ctr,
         "target_gender", bd.target_gender, "target_hhi", bd.target_hhi,
         "interests">>
    \o Flatten(bd.interests)

\* Lines 168-186
ValidCategories ==
    <<"technology", "business", "health&fitness", "education", "true_crime",
      "news&politics", "comedy", "sports", "kids&family", "arts",
      "society&culture", "history", "fiction", "religion&spirituality",
      "leisure", "government", "music", "science", "tv&film">>

\* Lines 142-166, by section
PromptIntro ==
    <<"You are an expert assistant helping brands find the most suitable podcasts to advertise on.",
      "Objective:", "Instructions:",
      "Choose only from this list of valid podcast categories:">>

\* Lines 189-214, by section
PromptOutputFormat ==
    <<"Output Format (strictly follow this format):", "Brand Details:">>

\* The prompt with the brand details interpolated at its top.
BuildPrompt_brand_first(brand_details) ==
    BrandText(brand_details) \o PromptIntro \o <<"[">> \o ValidCategories
    \o <<"]">> \o PromptOutputFormat \o <<"\n">>

\* Lines 141-216: the prompt, a sequence of tokens.
BuildPrompt(brand_details) ==
    PromptIntro \o <<"[">> \o ValidCategories \o <<"]">> \o PromptOutputFormat
    \o BrandText(brand_details) \o <<"\n">>

\* ------------------------------------------------------- the vector store
\* doc.metadata.get('pod_id', doc.metadata.get('clientId',
\*                  doc.metadata.get('id', 'unknown')))   (line 253)
PodIdOf(metadata) ==
    IF "pod_id" \in DOMAIN metadata THEN metadata["pod_id"]
    ELSE IF "clientId" \in DOMAIN metadata THEN metadata["clientId"]
    ELSE IF "id" \in DOMAIN metadata THEN metadata["id"]
    ELSE "unknown"

NoMetadata == [k \in {} |-> ""]

\* The documents of the index: their metadata name the podcast under one of
\* the three keys, under several, or not at all.
MetadataAt(i) ==
    CASE i % 6 = 1 -> [pod_id |-> "p1"]
      [] i % 6 = 2 -> [pod_id |-> "p2"]
      [] i % 6 = 3 -> [clientId |-> "p3"]
      [] i % 6 = 4 -> [id |-> "p4"]
      [] i % 6 = 5 -> NoMetadata
      [] OTHER -> [pod_id |-> "p3", id |-> "p1"]

DocAt(i) == [page_content |-> "content " \o ToString(i), metadata |-> MetadataAt(i)]

\* The persisted index ./1_pods_with_stats_embeddings: empty, small, or
\* larger than TopK.
Indexes == {[i \in 1..n |-> DocAt(i)] : n \in {0, 3, MaxDocs}}

\* The distance (in tenths) of document i to the embedded query, as the
\* embedding endpoint and the index decide it: the store's response is one
\* of these profiles (increasing, decreasing, all equal, beyond 1.0).
DistanceProfiles == {"increasing", "decreasing", "equal", "far"}

Distance(profile, i) ==
    CASE profile = "increasing" -> i
      [] profile = "decreasing" -> (MaxDocs + 2) - i
      [] profile = "equal" -> 4
      [] OTHER -> 7 + i

\* Whether document i comes before document j in the store's ranking:
\* smaller distance first.
Nearer(profile, i, j) ==
    \/ Distance(profile, i) < Distance(profile, j)
    \/ Distance(profile, i) = Distance(profile, j) /\ i <= j

RECURSIVE NearestOf(_, _, _, _)
NearestOf(idx, candidates, profile, k) ==
    IF k = 0 \/ candidates = {} THEN <<>>
    ELSE LET best == CHOOSE i \in candidates :
                         \A j \in candidates : Nearer(profile, i, j)
         IN  <<[doc |-> idx[best], score |-> Distance(profile, best)]>>
             \o NearestOf(idx, candidates \ {best}, profile, k - 1)

\* pods_stats_db.similarity_search_with_score(query, k): the k nearest
\* documents with their distances, nearest first (lines 303-306).
similarity_search_with_score(idx, profile, k) ==
    NearestOf(idx, DOMAIN idx, profile, k)

\* ------------------------------------------ get_enhanced_podcast_results
\* Lines 253-278 with the stats looked up under the 'id' key of the metadata
\* alone instead of under pod_id.
EnhancedResult_stats_by_id_key(doc, score, pods_tbl, stats_tbl) ==
    LET pod_id == PodIdOf(doc.metadata)
        podcast_details == get_podcast_details(pods_tbl, pod_id)
        podcast_stats ==
            get_podcast_stats(stats_tbl,
                              IF "id" \in DOMAIN doc.metadata
                              THEN doc.metadata["id"] ELSE "unknown")
    IN  [pod_id |-> pod_id,
         similarity_score |-> score,
         content |-> doc.page_content,
         metadata |-> doc.metadata,
         name |-> podcast_details.name,
         image |-> podcast_details.image,
         summary |-> podcast_details.summary,
         categories |-> podcast_details.categories,
         youtube_id |-> podcast_details.youtube_id,
         spotify_id |-> podcast_details.spotify_id,
         website_name |-> podcast_details.website_name,
         rss_feed |-> podcast_details.rss_feed,
         min_impressions |-> podcast_stats.min_impressions,
         max_impressions |-> podcast_stats.max_impressions,
         youtube_subscribers |-> podcast_stats.youtube_subscribers,
         instagram_followers |-> podcast_stats.instagram_followers,
         episode_avg_views |-> podcast_stats.episode_avg_views,
         estimated_ad_price |-> podcast_stats.estimated_ad_price]

\* Lines 253-278: one hit merged with its two lookups.
EnhancedResult(doc, score, pods_tbl, stats_tbl) ==
    LET pod_id == PodIdOf(doc.metadata)
        podcast_details == get_podcast_details(pods_tbl, pod_id)
        podcast_stats == get_podcast_stats(stats_tbl, pod_id)
    IN  [pod_id |-> pod_id,
         similarity_score |-> score,
         content |-> doc.page_content,
         metadata |-> doc.metadata,
         name |-> podcast_details.name,
         image |-> podcast_details.image,
         summary |-> podcast_details.summary,
         categories |-> podcast_details.categories,
         youtube_id |-> podcast_details.youtube_id,
         spotify_id |-> podcast_details.spotify_id,
         website_name |-> podcast_details.website_name,
         rss_feed |-> podcast_details.rss_feed,
         min_impressions |-> podcast_stats.min_impressions,
         max_impressions |-> podcast_stats.max_impressions,
         youtube_subscribers |-> podcast_stats.youtube_subscribers,
         instagram_followers |-> podcast_stats.instagram_followers,
         episode_avg_views |-> podcast_stats.episode_avg_views,
         estimated_ad_price |-> podcast_stats.estimated_ad_price]

\* Lines 251-280: the loop, enhanced_results being the list built so far.
RECURSIVE EnhanceLoop(_, _, _, _)
EnhanceLoop(vector_results, enhanced_results, pods_tbl, stats_tbl) ==
    IF vector_results = <<>> THEN enhanced_results
    ELSE EnhanceLoop(Tail(vector_results),
                     Append(enhanced_results,
                            EnhancedResult(Head(vector_results).doc,
                                           Head(vector_results).score,
                                           pods_tbl, stats_tbl)),
                     pods_tbl, stats_tbl)

\* What the lookups of the loop print, in order.
RECURSIVE EnhanceLog(_, _, _)
EnhanceLog(vector_results, pods_tbl, stats_tbl) ==
    IF vector_results = <<>> THEN <<>>
    ELSE LET pod_id == PodIdOf(Head(vector_results).doc.metadata)
         IN  DetailsLog(pods_tbl, pod_id) \o StatsLog(stats_tbl, pod_id)
             \o EnhanceLog(Tail(vector_results), pods_tbl, stats_tbl)

\* ------------------------------------------------- the two tables (inputs)
PodsRow(id, name, image, summary) ==
    [id |-> id, name |-> name, image |-> image, summary |-> summary,
     categories |-> "['business']", youtubeID |-> "yt-" \o id,
     spotifyId |-> "sp-" \o id, websiteName |-> id \o ".example",
     rssFeed |-> "rss-" \o id]

\* 0_pods.csv as it may be on disk: readable with every column (one row
\* complete, one with an empty image cell, one whose image file is missing),
\* readable with few columns (a blank image, an empty summary cell), readable
\* without an image column, and the three read failures.
PodsTables ==
    {[status |-> "ok",
      rows |-> <<PodsRow("p1", "Alpha", "img/alpha.png", "About alpha"),
                 PodsRow("p2", "Beta", NaN, "About beta"),
                 PodsRow("p3", "Gamma", "img/missing.png", "About gamma")>>],
     [status |-> "ok",
      rows |-> <<[id |-> "p1", name |-> "Alpha", image |-> "   ", summary |-> "About alpha"],
                 [id |-> "p2", name |-> "Beta", image |-> "img/beta.png", summary |-> NaN]>>],
     [status |-> "ok",
      rows |-> <<[id |-> "p1", name |-> "Alpha", summary |-> "About alpha"]>>],
     [status |-> "missing_file", rows |-> <<>>],
     [status |-> "no_key_column",
      rows |-> <<[name |-> "Alpha", image |-> "img/alpha.png", summary |-> "About alpha"]>>],
     [status |-> "unreadable", rows |-> <<>>]}

StatsRow(id, min, max, yt, ig, views, price) ==
    [clientId |-> id, min_impressions |-> min, max_impressions |-> max,
     youtube_subscribers |-> yt, instagram_followers |-> ig,
     episode_avg_views |-> views, estimated_ad_price |-> price]

\* pods_stats.csv as it may be on disk.
StatsTables ==
    {[status |-> "ok",
      rows |-> <<StatsRow("p1", 1000, 5000, 120000, 3000, 800, "30s: 500$"),
                 StatsRow("p2", 0, 0, 0, 0, 0, "N/A"),
                 StatsRow("p4", 10, 20, 30, 40, 50, "60s: 90$")>>],
     [status |-> "missing_file", rows |-> <<>>],
     [status |-> "no_key_column",
      rows |-> <<[min_impressions |-> 1, max_impressions |-> 2]>>],
     [status |-> "unreadable", rows |-> <<>>]}

\* ---------------------------------------------------- rendering one result
Msg(kind, text, value) == [kind |-> kind, text |-> text, value |-> value]

\* str(v) inside an f-string
PyStr(v) == IF v = NaN THEN "nan" ELSE v

\* bool(v): NaN is a non-zero float, so it is true.
Truthy(v) == v # ""

\* v.strip() == '' for the image texts of the tables
IsBlank(v) == v \in {"", " ", "   "}

\* Image files st.image cannot load (it raises).
BrokenImages == {"img/missing.png"}

NoImage == Msg("markdown", "No image available", 0)

\* st.progress(value) accepts a float between 0.0 and 1.0 and raises for any
\* other (value in tenths).
ProgressAccepts(value) == value >= 0 /\ value <= 10

NoException == [where |-> "none", type |-> "none"]
Raised(where, type) == [where |-> where, type |-> type]

\* Lines 142-150: the image column.  podcast['image'].strip() is outside the
\* inner try: on a value that is no string it raises AttributeError.
RenderImage(podcast) ==
    IF Truthy(podcast.image) /\ ~IsStr(podcast.image)
    THEN [out |-> <<>>, exc |-> Raised("image", "AttributeError")]
    ELSE IF Truthy(podcast.image) /\ ~IsBlank(podcast.image)
         THEN IF podcast.image \in BrokenImages
              THEN [out |-> <<NoImage>>, exc |-> NoException]
              ELSE [out |-> <<Msg("image", podcast.image, 150)>>, exc |-> NoException]
         ELSE [out |-> <<NoImage>>, exc |-> NoException]

\* Lines 154-157: the match quality.
RenderMatchQuality(podcast) ==
    LET similarity == 10 - podcast.similarity_score
    IN  IF ProgressAccepts(similarity)
        THEN [out |-> <<Msg("markdown", "Match Quality", 0),
                        Msg("progress", "", similarity),
                        Msg("write", "Similarity Score", similarity * 10)>>,
              exc |-> NoException]
        ELSE [out |-> <<Msg("markdown", "Match Quality", 0)>>,
              exc |-> Raised("progress", "StreamlitAPIException")]

\* Lines 159-163: the description.  len() of a value that is no string raises
\* TypeError.  (The summaries of the tables are shorter than 200 characters.)
RenderSummary(podcast) ==
    IF ~Truthy(podcast.summary)
    THEN [out |-> <<Msg("markdown", "Description", 0),
                    Msg("write", "No description available", 0)>>,
          exc |-> NoException]
    ELSE IF ~IsStr(podcast.summary)
         THEN [out |-> <<Msg("markdown", "Description", 0)>>,
               exc |-> Raised("summary", "TypeError")]
         ELSE [out |-> <<Msg("markdown", "Description", 0),
                         Msg("write", podcast.summary, 0)>>,
               exc |-> NoException]

\* Lines 165-234: categories, metrics, ad price, the expander, the rule.
RenderRest(podcast) ==
    [out |-> (IF Truthy(podcast.categories)
              THEN <<Msg("write", PyStr(podcast.categories), 0)>> ELSE <<>>)
             \o (IF podcast.youtube_subscribers > 0
                 THEN <<Msg("metric", "YouTube Subscribers", podcast.youtube_subscribers)>>
                 ELSE <<>>)
             \o (IF podcast.estimated_ad_price # "N/A"
                 THEN <<Msg("write", podcast.estimated_ad_price, 0)>> ELSE <<>>)
             \o <<Msg("text_area", podcast.content, 0), Msg("markdown", "---", 0)>>,
     exc |-> NoException]

\* b after a, unless a raised.
Then(a, b) == IF a.exc # NoException THEN a ELSE [out |-> a.out \o b.out, exc |-> b.exc]

\* Lines 136-234: the i-th result; what was written before an exception stays.
RenderPodcast(i, podcast) ==
    Then(Then(Then(Then(
        [out |-> <<Msg("markdown", "#" \o ToString(i) \o " - " \o PyStr(podcast.name), 0)>>,
         exc |-> NoException],
        RenderImage(podcast)),
        RenderMatchQuality(podcast)),
        RenderSummary(podcast)),
        RenderRest(podcast))

\* ------------------------------------------------------------------ state
VARIABLES
    pods,               \* 0_pods.csv on disk
    stats,              \* pods_stats.csv on disk
    index,              \* the persisted vector index
    disk0,              \* history: the three as they were at start
    pc,                 \* where the script run of the submission is
    brand_details,      \* the dictionary of lines 111-119
    prompt,             \* the prompt of lines 141-216
    output_text,        \* response.output_text
    llm_result_string,  \* what get_required_podcast_details_for_brand returned
    query,              \* history: the text the store was queried with
    vector_results,     \* what similarity_search_with_score returned
    results,            \* what search_for_podcasts returned
    shown,              \* number of results rendered so far
    ui,                 \* the page: the elements written by this script run
    log,                \* stdout of this script run
    exc,                \* the exception in flight or handled, if any
    outcome,            \* how the last script run ended
    steps,              \* history: the steps of this run, in order
    llm_calls,          \* history: LLM requests of this run
    db_queries,         \* history: vector store queries of this run
    first               \* history: the first completed search

vars ==
    <<pods, stats, index, disk0, pc, brand_details, prompt, output_text,
      llm_result_string, query, vector_results, results, shown, ui, log, exc,
      outcome, steps, llm_calls, db_queries, first>>

disk == <<pods, stats, index, disk0>>

NoSearch ==
    [done |-> FALSE, repeated |-> FALSE, vector_results |-> <<>>, results |-> <<>>]

RECURSIVE Reverse(_)
Reverse(q) == IF q = <<>> THEN <<>> ELSE Append(Reverse(Tail(q)), Head(q))

\* get_enhanced_podcast_results putting each entry at the front of the list
\* (insert(0, ...) for append).
get_enhanced_podcast_results_prepending(vector_results_, pods_tbl, stats_tbl) ==
    Reverse(EnhanceLoop(vector_results_, <<>>, pods_tbl, stats_tbl))

\* get_enhanced_podcast_results with the list shared between calls (a
\* module-level list or a mutable default argument): a later call goes on
\* from the list of the first.
get_enhanced_podcast_results_shared_list(vector_results_, pods_tbl, stats_tbl) ==
    EnhanceLoop(vector_results_, first.results, pods_tbl, stats_tbl)

\* get_enhanced_podcast_results(vector_results): line 249 starts from a new
\* empty list on every call.
get_enhanced_podcast_results(vector_results_, pods_tbl, stats_tbl) ==
    EnhanceLoop(vector_results_, <<>>, pods_tbl, stats_tbl)

Init ==
    /\ pods \in PodsTables
    /\ stats \in StatsTables
    /\ index \in Indexes
    /\ disk0 = [pods |-> pods, stats |-> stats, index |-> index]
    /\ pc = "idle"
    /\ brand_details = NoBrand
    /\ prompt = <<>>
    /\ output_text = <<>>
    /\ llm_result_string = JStr(<<>>)
    /\ query = JStr(<<>>)
    /\ vector_results = <<>>
    /\ results = <<>>
    /\ shown = 0
    /\ ui = <<>>
    /\ log = <<>>
    /\ exc = NoException
    /\ outcome = "none"
    /\ steps = <<>>
    /\ llm_calls = 0
    /\ db_queries = 0
    /\ first = NoSearch

\* A script run starts from nothing: Streamlit reruns the script top to
\* bottom, the page is rebuilt and no local survives.
\* Lines 97-119 and 141-216: validation, the brand dictionary, the prompt.
Submit(form) ==
    /\ pc = "idle"
    /\ output_text' = <<>>
    /\ llm_result_string' = JStr(<<>>)
    /\ query' = JStr(<<>>)
    /\ vector_results' = <<>>
    /\ results' = <<>>
    /\ shown' = 0
    /\ log' = <<>>
    /\ exc' = NoException
    /\ llm_calls' = 0
    /\ db_queries' = 0
    /\ IF form.website = <<>>
       THEN /\ ui' = <<Msg("error", "Please enter a website URL", 0)>>
            /\ pc' = "idle"
            /\ outcome' = "rejected"
            /\ brand_details' = NoBrand
            /\ prompt' = <<>>
            /\ steps' = <<>>
       ELSE IF form.budget <= 0
       THEN /\ ui' = <<Msg("error", "Please enter a valid budget", 0)>>
            /\ pc' = "idle"
            /\ outcome' = "rejected"
            /\ brand_details' = NoBrand
            /\ prompt' = <<>>
            /\ steps' = <<>>
       ELSE IF form.aov <= 0
       THEN /\ ui' = <<Msg("error", "Please enter a valid AOV", 0)>>
            /\ pc' = "idle"
            /\ outcome' = "rejected"
            /\ brand_details' = NoBrand
            /\ prompt' = <<>>
            /\ steps' = <<>>
       ELSE /\ ui' = <<>>
            /\ pc' = "llm_call"
            /\ outcome' = "running"
            /\ brand_details' = BrandDetails(form)
            /\ prompt' = BuildPrompt(BrandDetails(form))
            /\ steps' = <<"build_prompt">>
    /\ UNCHANGED <<disk, first>>

\* Lines 218-224: the request returns a text.  The prompt and the brand
\* dictionary are not read again.
LLMRespond(text) ==
    /\ pc = "llm_call"
    /\ llm_calls' = llm_calls + 1
    /\ output_text' = text
    /\ steps' = Append(steps, "call_llm")
    /\ pc' = "parse"
    /\ brand_details' = NoBrand
    /\ prompt' = <<>>
    /\ UNCHANGED <<disk, llm_result_string, query, vector_results, results, shown,
                   ui, log, exc, outcome, db_queries, first>>

\* Lines 218-222: the request raises (no key, no network, a refusal of the
\* endpoint); nothing in app.py catches it.
LLMRaise ==
    /\ pc = "llm_call"
    /\ llm_calls' = llm_calls + 1
    /\ steps' = Append(steps, "call_llm")
    /\ exc' = Raised("llm", "APIError")
    /\ pc' = "except"
    /\ brand_details' = NoBrand
    /\ prompt' = <<>>
    /\ UNCHANGED <<disk, output_text, llm_result_string, query, vector_results,
                   results, shown, ui, log, outcome, db_queries, first>>

\* Lines 230-237 with a retry: a parse failure sends the run back to the LLM.
AfterParse_retry(raised) == IF raised THEN "llm_call" ELSE "vector_query"

\* Lines 230-237: after the parse, whether it raised or not, the function
\* returns; the caller goes on to the vector store.
AfterParse(raised) == "vector_query"

\* Lines 224-237
ParseOutput ==
    /\ pc = "parse"
    /\ llm_result_string' = ParseLLMOutput(output_text)
    /\ log' = IF ParseLLMOutputRaises(output_text)
              THEN Append(log, "Exception: ") ELSE log
    /\ steps' = Append(steps, "parse_json")
    /\ pc' = AfterParse(ParseLLMOutputRaises(output_text))
    /\ UNCHANGED <<disk, brand_details, prompt, output_text, query, vector_results,
                   results, shown, ui, exc, outcome, llm_calls, db_queries, first>>

\* Lines 302-306: the store answers the query with its k nearest documents.
QueryRespond(profile) ==
    /\ pc = "vector_query"
    /\ db_queries' = db_queries + 1
    /\ query' = llm_result_string
    /\ vector_results' = similarity_search_with_score(index, profile, TopK)
    /\ steps' = Append(steps, "query_store")
    /\ pc' = "enhance"
    /\ output_text' = <<>>
    /\ UNCHANGED <<disk, brand_details, prompt, llm_result_string, results, shown,
                   ui, log, exc, outcome, llm_calls, first>>

\* Lines 302-306: opening the store, embedding the query or the search
\* raises; nothing in app.py catches it.
QueryRaise ==
    /\ pc = "vector_query"
    /\ db_queries' = db_queries + 1
    /\ query' = llm_result_string
    /\ steps' = Append(steps, "query_store")
    /\ exc' = Raised("vector_store", "ValueError")
    /\ pc' = "except"
    /\ output_text' = <<>>
    /\ UNCHANGED <<disk, brand_details, prompt, llm_result_string, vector_results,
                   results, shown, ui, log, outcome, llm_calls, first>>

\* Lines 309-312: the lookups of every hit, then the return.
Enhance ==
    /\ pc = "enhance"
    /\ LET enhanced_results == get_enhanced_podcast_results(vector_results, pods, stats)
       IN  /\ results' = enhanced_results
           /\ log' = log \o EnhanceLog(vector_results, pods, stats)
                     \o <<"Found " \o ToString(Len(enhanced_results))
                          \o " enhanced podcast recommendations">>
           /\ first' = IF first.done
                       THEN [first EXCEPT !.repeated =
                                 @ \/ vector_results = first.vector_results]
                       ELSE [done |-> TRUE, repeated |-> FALSE,
                             vector_results |-> vector_results,
                             results |-> enhanced_results]
    /\ steps' = Append(steps, "lookup")
    /\ pc' = "success"
    /\ UNCHANGED <<disk, brand_details, prompt, output_text, llm_result_string,
                   query, vector_results, shown, ui, exc, outcome, llm_calls,
                   db_queries>>

\* Lines 127-132 and 236-237: the success message, then the heading of the
\* list or the warning that there is none.
ShowSuccess ==
    /\ pc = "success"
    /\ steps' = Append(steps, "display")
    /\ IF results # <<>>
       THEN /\ ui' = ui \o <<Msg("success", "Found podcast recommendations", Len(results)),
                             Msg("subheader", "Recommended Podcasts", 0)>>
            /\ pc' = "render"
            /\ outcome' = outcome
       ELSE /\ ui' = ui \o <<Msg("success", "Found podcast recommendations", 0),
                             Msg("warning", "No podcast recommendations found. Try adjusting your criteria.", 0)>>
            /\ pc' = "idle"
            /\ outcome' = "rendered"
    /\ UNCHANGED <<disk, brand_details, prompt, output_text, llm_result_string,
                   query, vector_results, results, shown, log, exc, llm_calls,
                   db_queries, first>>

\* Lines 134-234: one turn of the loop over the results.
RenderResult ==
    /\ pc = "render"
    /\ shown < Len(results)
    /\ LET r == RenderPodcast(shown + 1, results[shown + 1])
       IN  /\ ui' = ui \o r.out
           /\ exc' = r.exc
           /\ IF r.exc # NoException
              THEN /\ pc' = "except"
                   /\ shown' = shown
                   /\ outcome' = outcome
              ELSE /\ shown' = shown + 1
                   /\ pc' = IF shown + 1 = Len(results) THEN "idle" ELSE "render"
                   /\ outcome' = IF shown + 1 = Len(results) THEN "rendered" ELSE outcome
    /\ UNCHANGED <<disk, brand_details, prompt, output_text, llm_result_string,
                   query, vector_results, results, log, steps, llm_calls,
                   db_queries, first>>

\* Line 239 narrowed to the errors of the LLM client.
Catches_api_errors_only(e) == e.type = "APIError"

\* Line 239: except Exception catches every exception but the ones that end
\* the interpreter.
Catches(e) == e.type \notin {"KeyboardInterrupt", "SystemExit"}

\* Lines 239-244: the generic error message, the hint, the stack trace.
ExceptHandler ==
    /\ pc = "except"
    /\ IF Catches(exc)
       THEN /\ ui' = ui \o <<Msg("error", "An error occurred while processing your request: " \o exc.type, 0),
                             Msg("info", "Please check your OpenAI API key and ChromaDB setup.", 0),
                             Msg("code", "traceback: " \o exc.where, 0)>>
            /\ pc' = "idle"
            /\ outcome' = "error"
       ELSE /\ ui' = ui
            /\ pc' = "crashed"
            /\ outcome' = "crashed"
    /\ UNCHANGED <<disk, brand_details, prompt, output_text, llm_result_string,
                   query, vector_results, results, shown, log, exc, steps,
                   llm_calls, db_queries, first>>

Next ==
    \/ \E form \in Forms : Submit(form)
    \/ \E text \in LLMResponses : LLMRespond(text)
    \/ LLMRaise
    \/ ParseOutput
    \/ \E profile \in DistanceProfiles : QueryRespond(profile)
    \/ QueryRaise
    \/ Enhance
    \/ ShowSuccess
    \/ RenderResult
    \/ ExceptHandler

Spec == Init /\ [][Next]_vars

\* ----------------------------------------------------------------- claims
\* search_for_podcasts has returned in this script run.
SearchReturned == Len(steps) >= 5

NoRowFor(tbl, key, client_id) ==
    \A i \in 1..Len(tbl.rows) : tbl.rows[i][key] # client_id

DetailsOf(r) ==
    [name |-> r.name, image |-> r.image, summary |-> r.summary,
     categories |-> r.categories, youtube_id |-> r.youtube_id,
     spotify_id |-> r.spotify_id, website_name |-> r.website_name,
     rss_feed |-> r.rss_feed]

StatsOf(r) ==
    [min_impressions |-> r.min_impressions, max_impressions |-> r.max_impressions,
     youtube_subscribers |-> r.youtube_subscribers,
     instagram_followers |-> r.instagram_followers,
     episode_avg_views |-> r.episode_avg_views,
     estimated_ad_price |-> r.estimated_ad_price]

DocumentedDetailsDefault(client_id) ==
    [name |-> "Podcast " \o client_id, image |-> "",
     summary |-> "No details available", categories |-> "", youtube_id |-> "",
     spotify_id |-> "", website_name |-> "", rss_feed |-> ""]

DocumentedStatsDefault ==
    [min_impressions |-> 0, max_impressions |-> 0, youtube_subscribers |-> 0,
     instagram_followers |-> 0, episode_avg_views |-> 0,
     estimated_ad_price |-> "N/A"]

\* C1: a client_id that matches no row of a table that was read gets the
\* documented default dictionary from get_podcast_details (name
\* 'Podcast <client_id>', summary 'No details available', the rest empty) and
\* from get_podcast_stats (five zeros and 'N/A'); the lookup does not raise,
\* so every hit has its entry in the result list.
C1_MissingKeyDefault ==
    SearchReturned =>
        /\ Len(results) = Len(vector_results)
        /\ \A i \in 1..Len(results) :
            LET client_id == PodIdOf(vector_results[i].doc.metadata)
            IN  /\ (pods.status = "ok" /\ NoRowFor(pods, "id", client_id))
                        => DetailsOf(results[i]) = DocumentedDetailsDefault(client_id)
                /\ (stats.status = "ok" /\ NoRowFor(stats, "clientId", client_id))
                        => StatsOf(results[i]) = DocumentedStatsDefault

C1_Witness ==
    /\ SearchReturned
    /\ pods.status = "ok"
    /\ stats.status = "ok"
    /\ \E i \in 1..Len(results) :
        /\ NoRowFor(pods, "id", results[i].pod_id)
        /\ NoRowFor(stats, "clientId", results[i].pod_id)
        /\ results[i].summary = "No details available"
        /\ results[i].estimated_ad_price = "N/A"

\* The parse of the LLM text has just happened.
Parsed == pc = "vector_query"

NonEmptyString(v) == v.t = "str" /\ v.s # <<>>

HasDescription(j) == j.ok /\ j.val.t = "obj" /\ HasKey(j.val, DetailsKey)

C3_ResultsSortedByScore ==
    \A i \in 1..(Len(results) - 1) :
        results[i].similarity_score <= results[i + 1].similarity_score

C3_Witness ==
    /\ SearchReturned
    /\ Len(results) >= 2
    /\ results[1].similarity_score < results[Len(results)].similarity_score
    /\ results[1].content = "content " \o ToString(Len(index))

\* C4 as stated: a missing image, an image field that is absent or no string
\* included, is replaced by the placeholder where it occurs and never takes
\* the submission into the generic error handler.
C4_Original == pc = "except" => exc.where # "image"

\* C5 as stated: when reading the table fails, both lookups log the error and
\* return the record they return for an absent key.
C5_Original ==
    SearchReturned =>
        \A i \in 1..Len(results) :
            /\ pods.status # "ok"
                    => DetailsOf(results[i]) = DocumentedDetailsDefault(results[i].pod_id)
            /\ stats.status # "ok" => StatsOf(results[i]) = DocumentedStatsDefault

Logged(line) == \E k \in 1..Len(log) : log[k] = line

\* C5 amended: when reading the table fails, both lookups log the error and
\* return a placeholder record without raising: get_podcast_stats the record
\* of an absent key, get_podcast_details that record with the summary
\* 'Error loading details' in place of 'No details available'.
C5_ReadErrorPlaceholder ==
    SearchReturned =>
        /\ Len(results) = Len(vector_results)
        /\ \A i \in 1..Len(results) :
            LET client_id == PodIdOf(vector_results[i].doc.metadata)
            IN  /\ pods.status # "ok" =>
                    /\ DetailsOf(results[i]) =
                           [DocumentedDetailsDefault(client_id)
                                EXCEPT !.summary = "Error loading details"]
                    /\ Logged("Error loading podcast details for " \o client_id)
                /\ stats.status # "ok" =>
                    /\ StatsOf(results[i]) = DocumentedStatsDefault
                    /\ Logged("Error loading podcast stats for " \o client_id)

C5_Witness ==
    /\ SearchReturned
    /\ pods.status = "no_key_column"
    /\ stats.status = "missing_file"
    /\ Len(results) >= 1
    /\ results[1].summary = "Error loading details"
    /\ Logged("Error loading podcast stats for " \o results[1].pod_id)

StepOrder ==
    <<"build_prompt", "call_llm", "parse_json", "query_store", "lookup", "display">>

\* The script run of an accepted submission has ended.
Finished == pc = "idle" /\ outcome \in {"rendered", "error"}

C7_NoPersistentMutation ==
    /\ pods = disk0.pods
    /\ stats = disk0.stats
    /\ index = disk0.index
    /\ (SearchReturned /\ first.done /\ vector_results = first.vector_results)
            => results = first.results

C7_Witness ==
    /\ SearchReturned
    /\ first.repeated
    /\ vector_results = first.vector_results
    /\ Len(results) >= 2
    /\ outcome = "error"

IsShown(kind) == \E k \in 1..Len(ui) : ui[k].kind = kind

\* C8: an exception raised while a submission is processed is caught by the
\* handler of the UI, which shows the generic error message, the hint and the
\* stack trace; it never ends the script; the success message is not shown
\* when search_for_podcasts raised.
C8_GenericErrorHandler ==
    /\ pc # "crashed"
    /\ exc.where \in {"llm", "vector_store"} => ~IsShown("success")
    /\ (pc = "idle" /\ exc # NoException) =>
        /\ outcome = "error"
        /\ Len(ui) >= 3
        /\ ui[Len(ui) - 2].kind = "error"
        /\ ui[Len(ui) - 1].kind = "info"
        /\ ui[Len(ui)].kind = "code"

C8_Witness ==
    /\ pc = "idle"
    /\ outcome = "error"
    /\ exc.where = "vector_store"
    /\ ui[Len(ui)].kind = "code"
    /\ ~IsShown("success")

\* C9: the prompt holds the list of the 19 valid categories verbatim, whatever
\* the brand details are, and the brand details come only after that list:
\* the prompt up to the end of the list is the fixed text, and the brand
\* details are the last thing before the final line break.
C9_PromptHasCategoryList ==
    pc = "llm_call" =>
        LET n == Len(prompt)
            b == BrandText(brand_details)
            head == Len(PromptIntro) + 1
        IN  /\ Len(ValidCategories) = 19
            /\ n >= head + 19 + Len(b) + 1
            /\ SubSeq(prompt, 1, Len(PromptIntro)) = PromptIntro
            /\ SubSeq(prompt, head + 1, head + 19) = ValidCategories
            /\ SubSeq(prompt, n - Len(b), n - 1) = b
            /\ n - Len(b) > head + 19

C9_Witness ==
    /\ pc = "llm_call"
    /\ \E k \in 1..Len(brand_details.interests) :
           brand_details.interests[k] = <<"technology">>
    /\ \E i \in 1..Len(prompt) : prompt[i] = "tv&film" /\ prompt[i - 1] = "technology"

\* C10: get_enhanced_podcast_results returns one entry per hit, in the order
\* of the hits; the i-th entry has the score, the text and the metadata of
\* the i-th hit and the details and stats looked up for the pod_id of that
\* hit's document; search_for_podcasts returns at most 5 entries.
C10_MergePerHit ==
    SearchReturned =>
        /\ Len(results) = Len(vector_results)
        /\ Len(results) <= 5
        /\ \A i \in 1..Len(results) :
            LET doc == vector_results[i].doc
                pod_id == PodIdOf(doc.metadata)
            IN  /\ results[i].pod_id = pod_id
                /\ results[i].similarity_score = vector_results[i].score
                /\ results[i].content = doc.page_content
                /\ results[i].metadata = doc.metadata
                /\ DetailsOf(results[i]) = get_podcast_details(pods, pod_id)
                /\ StatsOf(results[i]) = get_podcast_stats(stats, pod_id)

C10_Witness ==
    /\ SearchReturned
    /\ Len(index) > 5
    /\ Len(results) = 5
    /\ pods.status = "ok"
    /\ stats.status = "ok"
    /\ results[1].name = "Gamma"
    /\ results[1].estimated_ad_price = "N/A"
    /\ results[5].name = "Beta"

\* The description of a payload that is a JSON object with that field.
DescriptionOf(p) == Lookup(JsonLoads(p).val, DetailsKey)

\* C11 as stated: a payload with a string description, wrapped in code
\* fences (with or without the json tag), gives the description the payload
\* gives without fences, also when the payload holds the text json or a
\* backtick.
C11_Original ==
    Parsed =>
        \A p \in DescriptionPayloads :
            output_text \in {p, FencedJson(p), FencedPlain(p)}
                => llm_result_string = DescriptionOf(p)

\* C12 as stated: the value handed to st.progress, 1 - similarity_score, is
\* within the 0 to 1 that st.progress accepts for every score of a result
\* (scores in tenths), and the match quality of a result never raises.
C12_Original ==
    /\ \A i \in 1..Len(results) :
           (i <= shown \/ (i = shown + 1 /\ pc = "except" /\ exc.where = "progress"))
               => /\ 10 - results[i].similarity_score >= 0
                  /\ 10 - results[i].similarity_score <= 10
    /\ pc = "except" => exc.where # "progress"

====
